---------------------------- MODULE Spec2Model ----------------------------
(***************************************************************************)
(* Model of sprobot's profile backend (src/src/sprobot/backend.py) and of  *)
(* the command handlers that call it (src/src/sprobot/commands.py).        *)
(*                                                                         *)
(* Python dicts are objects with identity: the heap maps references to     *)
(* documents, and the cache and the callers hold references.  Every await  *)
(* of the backend is a step boundary, so calls of different tasks          *)
(* interleave exactly where the event loop may switch tasks.               *)
(***************************************************************************)
EXTENDS Integers, Sequences, FiniteSets, TLC

(***************************************************************************)
(* Bounds of the model.                                                    *)
(***************************************************************************)
NumUsers == 3
NumTasks == 2
CacheMaxSize == 2
MaxLookups == 2
MaxCalls == 3
\* The most fields a template may have (the text inputs of a modal).
MaxFields == 5

(***************************************************************************)
(* Names and values.                                                       *)
(***************************************************************************)
TemplateName == "Coffee Setup"
TextFields == {"Machine"}
ImageName == "Gear Picture"
GuildId == "726985544038612993"

S3_ENDPOINT == "https://us-southeast-1.linodeobjects.com"
S3_BUCKET == "profile-bot"
SPROBOT_WEB_ENDPOINT == "http://bot.espressoaf.com/"

Users == 1..NumUsers
Tasks == 1..NumTasks
Keys == [template : {TemplateName}, guild : {GuildId}, user : Users]

\* A URL is the sequence of its parts: the origin, then the path segments.
EmptyUrl == <<>>
ProxyUrl == <<"https://media.discordapp.net", "attachments", "upload">>
TextValues == {"", "x"}

FetchErrorMsg == "Unable to fetch from the URL provided"
UnknownTypeMsg == "Unable to determine what type of file you linked"
NotImageMsg == "we can only use images"

(***************************************************************************)
(* Documents: dicts from field name to value.                              *)
(***************************************************************************)
EmptyDoc == [f \in {} |-> ""]
DictDel(d, f) == [x \in DOMAIN d \ {f} |-> d[x]]
DictSet(d, f, v) == [x \in DOMAIN d \cup {f} |-> IF x = f THEN v ELSE d[x]]
DictGet(d, f, default) == IF f \in DOMAIN d THEN d[f] ELSE default

\* Bodies that the bot never writes: bytes that json.loads rejects, and a JSON
\* text that is not an object (json.loads gives a non-empty list).  Each is kept
\* apart from every dict by a key that no template has.
NotJson == [f \in {"<not json>"} |-> ""]
JsonArray == [f \in {"<json array>"} |-> ""]
\* type(res) is dict
IsDict(d) == d \notin {NotJson, JsonArray}

\* A path that is the same for every member.
ProfilePathOfNobody(k) == <<"profiles", k.guild, k.template, "0", "json">>
\* os.path.join("profiles", str(guild_id), template.Name, f"{user_id}.json")
ProfilePath(k) == <<"profiles", k.guild, k.template, ToString(k.user), "json">>
\* os.path.join("images", str(guild_id), template.Name, f"{user_id}.{kind.extension}")
ImagePath(k, ext) == <<"images", k.guild, k.template, ToString(k.user), ext>>
\* cachetools.keys.hashkey(template.Name, guild_id, user_id)
HashKey(k) == <<k.template, k.guild, k.user>>

\* urljoin(endpoint, urljoin(f"{bucket}/", quote(s3_path)))
UrlJoin(endpoint, bucket, path) == <<endpoint, bucket>> \o path
StartsWith(url, endpoint) == Len(url) >= 1 /\ url[1] = endpoint

(***************************************************************************)
(* Content sniffing: filetype.guess on the fetched bytes.                  *)
(***************************************************************************)
Bodies == {"html", "mp4", "png"}
NoKind == [known |-> FALSE, mime |-> <<"", "">>, extension |-> ""]
\* The bytes of another PNG picture.
OtherPng == "png of another picture"
Guess(body) ==
    CASE body \in {"png", OtherPng} ->
             [known |-> TRUE, mime |-> <<"image", "png">>, extension |-> "png"]
      [] body = "mp4" -> [known |-> TRUE, mime |-> <<"video", "mp4">>, extension |-> "mp4"]
      [] OTHER -> NoKind
\* A check that takes every recognised type for an image.
AnyMime(kind) == TRUE
\* kind.mime.startswith("image/")
IsImageMime(kind) == kind.mime[1] = "image"

\* What the GET of the source URL does: it raises (network error, timeout), or
\* it answers with a status and a body.
NoResponse == [raised |-> FALSE, status |-> 0, body |-> ""]
FetchOutcomes == [raised : {TRUE}, status : {0}, body : {""}]
                 \cup [raised : {FALSE}, status : {200, 404}, body : Bodies]

(***************************************************************************)
(* The program's state.                                                    *)
(***************************************************************************)
VARIABLES
    store,      \* the bucket's profile objects: path -> [exists, body]
    images,     \* the bucket's image objects: [path, body]
    heap,       \* dict objects: reference -> document
    cache,      \* profile_cache: <<[key, ref]>>, least recently used first
    hits,       \* profile_cache_total_hits
    misses,     \* profile_cache_misses
    pc,         \* each task's position
    key,        \* each task's (template, guild_id, user_id)
    held,       \* each task's profile / user_profile reference, 0 for None
    res,        \* fetch_profile's res, read and not yet cached
    err,        \* save_profile's error_for_user
    resp,       \* _get_image_s3_url's GET: what the source URL answered
    body,       \* the Body of save_profile's put_object in flight
    last,       \* the return or raise of the call that has just completed
    calls,      \* the number of calls of the backend so far
    deleted,    \* history: the keys deleted and not written since
    before,     \* history: the key's cache entry when each save_profile was called
    given,      \* history: the document each save_profile in flight was called with
    used,       \* history: the cache keys in the order of their last access
    view,       \* the DeleteProfile view: _state, _next, stop(), and what it deletes
    at,         \* the position of the view's confirmed callback
    probe       \* a (template, guild, user) whose paths and URL are derived

vars == <<store, images, heap, cache, hits, misses, pc, key, held, res, err, resp, body,
          last, calls, deleted, before, given, used, view, at, probe>>

Refs == 1..(NumTasks + CacheMaxSize)
ProfilePaths == {ProfilePath(k) : k \in Keys}
NoObject == [exists |-> FALSE, body |-> EmptyDoc]
AnyKey == CHOOSE k \in Keys : TRUE
NoEntry == [has |-> FALSE, doc |-> EmptyDoc]
NoEvent == [op |-> "none", task |-> 0, key |-> AnyKey, kind |-> "", doc |-> EmptyDoc,
            warn |-> "", url |-> <<>>]
Event(o, p, k, kd, d, w) ==
    [op |-> o, task |-> p, key |-> k, kind |-> kd, doc |-> d, warn |-> w, url |-> <<>>]
\* urljoin(SPROBOT_WEB_ENDPOINT, urljoin(f"{bucket}/", quote(s3_path)))
WebUrl(k) == UrlJoin(SPROBOT_WEB_ENDPOINT, S3_BUCKET, ProfilePath(k))

\* The documents a caller submits: any text fields, and an image field that is
\* absent, empty, an attachment URL or a URL already under the endpoint.
ImageValues(k) == {EmptyUrl, ProxyUrl, UrlJoin(S3_ENDPOINT, S3_BUCKET, ImagePath(k, "png"))}
TextDocs == UNION {[fs -> TextValues] : fs \in SUBSET TextFields}
InputDocs(k) == TextDocs \cup {DictSet(d, ImageName, u) : d \in TextDocs, u \in ImageValues(k)}

\* The process starts with an empty cache; the bucket is empty or holds a
\* profile that an earlier run of the bot saved.
EarlierDocs == {[Machine |-> "x"]}

\* DeleteProfile.__init__: self._state = DeleteState.Called, no _next yet.
NoView == [state |-> "Called", next |-> "none", stopped |-> "no", seen |-> NoObject]
NoProbe == [op |-> "none"]

\* The bucket holds at most the member's profile, one of docs.
StoreHolds(docs) ==
    \E o \in {NoObject} \cup {[exists |-> TRUE, body |-> d] : d \in docs} :
        store = [path \in ProfilePaths |->
                    IF path = ProfilePath(AnyKey) THEN o ELSE NoObject]

\* No handler is running and no call was made.
Idle ==
    /\ images = {}
    /\ hits = 1
    /\ misses = 1
    /\ pc = [p \in Tasks |-> "idle"]
    /\ key = [p \in Tasks |-> AnyKey]
    /\ held = [p \in Tasks |-> 0]
    /\ res = [p \in Tasks |-> EmptyDoc]
    /\ err = [p \in Tasks |-> ""]
    /\ body = [p \in Tasks |-> EmptyDoc]
    /\ last = NoEvent
    /\ calls = 0
    /\ deleted = {}
    /\ resp = [p \in Tasks |-> NoResponse]
    /\ before = [p \in Tasks |-> NoEntry]
    /\ given = [p \in Tasks |-> EmptyDoc]
    /\ view = NoView
    /\ at = "none"
    /\ probe = NoProbe

\* S3Backend.__init__, and no handler running.
Fresh ==
    /\ heap = [r \in Refs |-> EmptyDoc]
    /\ cache = <<>>
    /\ used = <<>>
    /\ Idle

Init == StoreHolds(EarlierDocs) /\ Fresh

(***************************************************************************)
(* cachetools.LRUCache(maxsize): get and set move the key to the recent    *)
(* end, a set of a new key at capacity pops the least recently used one.   *)
(***************************************************************************)
CacheHas(c, hk) == \E i \in 1..Len(c) : c[i].key = hk
CacheRef(c, hk) == c[CHOOSE i \in 1..Len(c) : c[i].key = hk].ref
CacheRefs(c) == {c[i].ref : i \in 1..Len(c)}
CacheWithout(c, hk) == SelectSeq(c, LAMBDA e : e.key # hk)
\* A lookup that leaves the order of the entries as it is.
CacheTouchKeepsOrder(c, hk) == c
CacheTouch(c, hk) ==
    IF CacheHas(c, hk)
    THEN Append(CacheWithout(c, hk), [key |-> hk, ref |-> CacheRef(c, hk)])
    ELSE c
CacheSet(c, hk, r) ==
    LET rest == CacheWithout(c, hk)
        room == IF Len(rest) >= CacheMaxSize THEN Tail(rest) ELSE rest
    IN  Append(room, [key |-> hk, ref |-> r])
\* A del that leaves the entry in the cache.
CacheDelKeeps(c, hk) == c
\* try: del self.profile_cache[cache_key] except KeyError: pass
CacheDel(c, hk) == CacheWithout(c, hk)
\* The log of accesses: the key accessed becomes the most recent one.
Access(u, hk) == Append(SelectSeq(u, LAMBDA x : x # hk), hk)

\* What a lookup of the key finds in the cache.
Cached(k) ==
    IF CacheHas(cache, HashKey(k))
    THEN [has |-> TRUE, doc |-> heap[CacheRef(cache, HashKey(k))]]
    ELSE NoEntry

\* Dict objects: a new object takes the first unused reference, and an object
\* nothing refers to any more is gone.
Alloc(live) == CHOOSE r \in Refs \ live : \A q \in Refs \ live : r <= q
HeldRefs(hd) == {hd[p] : p \in Tasks} \ {0}
Collect(h, c, hd) ==
    [r \in Refs |-> IF r \in CacheRefs(c) \cup HeldRefs(hd) THEN h[r] ELSE EmptyDoc]

(***************************************************************************)
(* _get_image_s3_url                                                       *)
(***************************************************************************)
NoUrl == EmptyUrl
MaybeURL(d) == DictGet(d, ImageName, NoUrl)
\* Neither "not maybeURL" nor startswith(endpoint): the URL has to be fetched.
NeedsFetch(d) == MaybeURL(d) # EmptyUrl /\ ~StartsWith(MaybeURL(d), S3_ENDPOINT)
\* Early returns that never hand a URL back.
EarlyResultDropsUrl(d) == [err |-> "", url |-> NoUrl, ext |-> ""]

\* The two early returns: ("", None) and ("", maybeURL).
EarlyResult(d) ==
    IF MaybeURL(d) = EmptyUrl
    THEN [err |-> "", url |-> NoUrl, ext |-> ""]
    ELSE [err |-> "", url |-> MaybeURL(d), ext |-> ""]
\* A relocation that takes a GET that raised for a fetched image.
RelocateIgnoresRaise(k, o) ==
    IF o.raised
    THEN [err |-> "", url |-> UrlJoin(S3_ENDPOINT, S3_BUCKET, ImagePath(k, "png")), ext |-> ""]
    ELSE [err |-> NotImageMsg, url |-> NoUrl, ext |-> ""]

\* A relocation with one warning for every rejection.
RelocateOneWarning(k, o) ==
    IF o.raised \/ ~Guess(o.body).known \/ ~IsImageMime(Guess(o.body))
    THEN [err |-> FetchErrorMsg, url |-> NoUrl, ext |-> ""]
    ELSE [err |-> "",
          url |-> UrlJoin(S3_ENDPOINT, S3_BUCKET, ImagePath(k, Guess(o.body).extension)),
          ext |-> Guess(o.body).extension]

\* After the GET: the except branch, the two sniff rejections, or the path to upload.
Relocate(k, o) ==
    IF o.raised
    THEN [err |-> FetchErrorMsg, url |-> NoUrl, ext |-> ""]
    ELSE LET kind == Guess(o.body)
         IN  IF ~kind.known
             THEN [err |-> UnknownTypeMsg, url |-> NoUrl, ext |-> ""]
             ELSE IF ~IsImageMime(kind)
                  THEN [err |-> NotImageMsg, url |-> NoUrl, ext |-> ""]
                  ELSE [err |-> "",
                        url |-> UrlJoin(S3_ENDPOINT, S3_BUCKET, ImagePath(k, kind.extension)),
                        ext |-> kind.extension]

\* A save_profile that keeps the fields of the stored profile that the document
\* it is given does not have.
ApplyImageMerges(d, image_url) ==
    LET old == store[ProfilePath(AnyKey)].body
        new == IF image_url # NoUrl THEN DictSet(d, ImageName, image_url)
               ELSE DictDel(d, ImageName)
    IN  [f \in DOMAIN old \cup DOMAIN new |-> IF f \in DOMAIN new THEN new[f] ELSE old[f]]

\* save_profile, after _get_image_s3_url: "if image_url: profile[Image] = image_url
\* else: del profile[Image]" (a KeyError is passed).
ApplyImage(d, image_url) ==
    IF image_url # NoUrl THEN DictSet(d, ImageName, image_url) ELSE DictDel(d, ImageName)

(***************************************************************************)
(* Steps.  A step that ends a call records its return or raise in last;    *)
(* every other step clears it.                                             *)
(***************************************************************************)
Quiet == \A q \in Tasks : pc[q] = "idle"

Settle(h, c, hd) ==
    /\ cache' = c
    /\ held' = hd
    /\ heap' = Collect(h, c, hd)

\* fetch_profile on a cache hit returns _get_from_cache's deep copy: a new object.
HitObject(live, cached) == Alloc(live)

\* fetch_profile up to its first await: _get_from_cache, and the return of a hit.
FetchCall(p, k) ==
    /\ pc[p] = "idle"
    /\ hits <= MaxLookups
    /\ calls < MaxCalls
    /\ calls' = calls + 1
    /\ LET hk == HashKey(k)
           profile == IF CacheHas(cache, hk) THEN heap[CacheRef(cache, hk)] ELSE EmptyDoc
           c1 == CacheTouch(cache, hk)
           hd0 == [held EXCEPT ![p] = 0]
           r == HitObject(CacheRefs(c1) \cup HeldRefs(hd0), CacheRef(cache, hk))
       IN  /\ hits' = hits + 1
           /\ key' = [key EXCEPT ![p] = k]
           /\ misses' = IF profile # EmptyDoc THEN misses ELSE misses + 1
           /\ IF profile # EmptyDoc /\ IsDict(profile)
              THEN /\ pc' = pc
                   /\ Settle([heap EXCEPT ![r] = profile], c1, [hd0 EXCEPT ![p] = r])
                   /\ last' = Event("fetch", p, k, "ok", profile, "")
              ELSE /\ pc' = [pc EXCEPT ![p] = "fetch_get"]
                   /\ Settle(heap, c1, hd0)
                   /\ last' = NoEvent
    /\ used' = IF CacheHas(cache, HashKey(k)) THEN Access(used, HashKey(k)) ELSE used
    /\ UNCHANGED <<store, images, res, err, resp, body, deleted, before, given>>
    /\ UNCHANGED <<view, at, probe>>

\* await s3.get_object and the read of its Body; NoSuchKey becomes KeyError, any
\* other failure of the store propagates, and so does json.loads's error.
FetchGet(p) ==
    /\ UNCHANGED calls
    /\ pc[p] = "fetch_get"
    /\ LET obj == store[ProfilePath(key[p])]
       IN  \/ /\ obj.exists
              /\ obj.body # NotJson
              /\ res' = [res EXCEPT ![p] = obj.body]
              /\ pc' = [pc EXCEPT ![p] = "fetch_fill"]
              /\ last' = NoEvent
           \/ /\ obj.exists
              /\ obj.body = NotJson
              /\ pc' = [pc EXCEPT ![p] = "idle"]
              /\ last' = Event("fetch", p, key[p], "JSONDecodeError", EmptyDoc, "")
              /\ UNCHANGED res
           \/ /\ ~obj.exists
              /\ pc' = [pc EXCEPT ![p] = "idle"]
              /\ last' = Event("fetch", p, key[p], "KeyError", EmptyDoc, "")
              /\ UNCHANGED res
           \/ /\ pc' = [pc EXCEPT ![p] = "idle"]
              /\ last' = Event("fetch", p, key[p], "StorageFailure", EmptyDoc, "")
              /\ UNCHANGED res
    /\ UNCHANGED <<store, images, heap, cache, hits, misses, key, held, err, resp, body,
                   deleted, before, given, used>>
    /\ UNCHANGED <<view, at, probe>>

\* self.profile_cache[cache_key] = res; if type(res) is dict: return res: the
\* caller gets the very object that the cache holds.  A res that is no dict is
\* cached too, and then "raise KeyError" is reached.
FetchFill(p) ==
    /\ UNCHANGED calls
    /\ pc[p] = "fetch_fill"
    /\ LET r == Alloc(CacheRefs(cache) \cup HeldRefs(held))
       IN  /\ Settle([heap EXCEPT ![r] = res[p]],
                     CacheSet(cache, HashKey(key[p]), r),
                     [held EXCEPT ![p] = IF IsDict(res[p]) THEN r ELSE 0])
           /\ last' = IF IsDict(res[p])
                      THEN Event("fetch", p, key[p], "ok", res[p], "")
                      ELSE Event("fetch", p, key[p], "KeyError", EmptyDoc, "")
    /\ pc' = [pc EXCEPT ![p] = "idle"]
    /\ res' = [res EXCEPT ![p] = EmptyDoc]
    /\ used' = Access(used, HashKey(key[p]))
    /\ UNCHANGED <<store, images, hits, misses, key, err, resp, body, deleted, before, given>>
    /\ UNCHANGED <<view, at, probe>>

\* editfunc / saveimage, after fetch_profile:
\* user_profile[template.Image.Name] = image.proxy_url
SetImage(p) ==
    /\ UNCHANGED calls
    /\ pc[p] = "idle"
    /\ held[p] # 0
    /\ heap' = [heap EXCEPT ![held[p]] = DictSet(@, ImageName, ProxyUrl)]
    /\ last' = NoEvent
    /\ UNCHANGED <<store, images, cache, hits, misses, pc, key, held, res, err, resp, body,
                   deleted, before, given, used>>
    /\ UNCHANGED <<view, at, probe>>

\* delete_profile_image, after fetch_profile: del user_profile[template.Image.Name]
DelImage(p) ==
    /\ UNCHANGED calls
    /\ pc[p] = "idle"
    /\ held[p] # 0
    /\ ImageName \in DOMAIN heap[held[p]]
    /\ heap' = [heap EXCEPT ![held[p]] = DictDel(@, ImageName)]
    /\ last' = NoEvent
    /\ UNCHANGED <<store, images, cache, hits, misses, pc, key, held, res, err, resp, body,
                   deleted, before, given, used>>
    /\ UNCHANGED <<view, at, probe>>

\* save_profile from its call to its first await, on the dict object r.  With
\* nothing to fetch, _get_image_s3_url returns at once and the body of the
\* put_object is serialized; otherwise the GET of the URL is awaited.
SaveBegin(p, k, h, hd) ==
    LET d == h[hd[p]]
        early == EarlyResult(d)
    IN  /\ calls < MaxCalls
        /\ calls' = calls + 1
        /\ key' = [key EXCEPT ![p] = k]
        /\ before' = [before EXCEPT ![p] = Cached(k)]
        /\ given' = [given EXCEPT ![p] = d]
        /\ last' = NoEvent
        /\ IF NeedsFetch(d)
           THEN /\ pc' = [pc EXCEPT ![p] = "save_img"]
                /\ Settle(h, cache, hd)
                /\ UNCHANGED <<err, body>>
           ELSE /\ pc' = [pc EXCEPT ![p] = "save_put"]
                /\ Settle([h EXCEPT ![hd[p]] = ApplyImage(d, early.url)], cache, hd)
                /\ err' = [err EXCEPT ![p] = early.err]
                /\ body' = [body EXCEPT ![p] = ApplyImage(d, early.url)]
        /\ UNCHANGED <<store, images, hits, misses, res, resp, deleted, used>>
        /\ UNCHANGED <<view, at, probe>>

\* EditProfile.on_submit: save_profile(template, guild, user, built_profile), a
\* new dict built from the form.
SaveCall(p, k, d) ==
    /\ pc[p] = "idle"
    /\ LET hd0 == [held EXCEPT ![p] = 0]
           r == Alloc(CacheRefs(cache) \cup HeldRefs(hd0))
       IN  SaveBegin(p, k, [heap EXCEPT ![r] = d], [hd0 EXCEPT ![p] = r])

\* saveimage / delete_profile_image: save_profile(..., user_profile), the dict
\* that fetch_profile returned.
SaveHeld(p) ==
    /\ pc[p] = "idle"
    /\ held[p] # 0
    /\ SaveBegin(p, key[p], heap, held)

\* _get_image_s3_url's GET of the source URL: the response is streamed to the
\* buffer, or the GET raises.
SaveGet(p, o) ==
    /\ UNCHANGED calls
    /\ pc[p] = "save_img"
    /\ pc' = [pc EXCEPT ![p] = "save_sniff"]
    /\ resp' = [resp EXCEPT ![p] = o]
    /\ last' = NoEvent
    /\ UNCHANGED <<store, images, heap, cache, hits, misses, key, held, res, err, body,
                   deleted, before, given, used>>
    /\ UNCHANGED <<view, at, probe>>

\* s3.upload_fileobj(buf, bucket, s3_path): the object of that key has the bytes
\* of buf, whatever it had before.
Upload(objects, path, bytes) ==
    {o \in objects : o.path # path} \cup {[path |-> path, body |-> bytes]}

\* A relocation in which every rejection raises as a failed upload does.
RejectionRaises(got, uploaded) == got.err # "" \/ (got.ext # "" /\ ~uploaded)

\* upload_fileobj / put_object_acl are not guarded: when the upload of a sniffed
\* image fails, the error leaves _get_image_s3_url and save_profile.
UploadRaises(got, uploaded) == got.ext # "" /\ ~uploaded

\* The rest of _get_image_s3_url (the sniff, the upload) and save_profile's use
\* of its result, up to the put_object.
SaveSniff(p, uploaded) ==
    /\ UNCHANGED calls
    /\ pc[p] = "save_sniff"
    /\ LET got == Relocate(key[p], resp[p])
           d == ApplyImage(heap[held[p]], got.url)
       IN  IF UploadRaises(got, uploaded)
           THEN /\ pc' = [pc EXCEPT ![p] = "idle"]
                /\ last' = Event("save", p, key[p], "UploadError", EmptyDoc, "")
                /\ Settle(heap, cache, [held EXCEPT ![p] = 0])
                /\ before' = [before EXCEPT ![p] = NoEntry]
                /\ given' = [given EXCEPT ![p] = EmptyDoc]
                /\ UNCHANGED <<images, err, body>>
           ELSE /\ pc' = [pc EXCEPT ![p] = "save_put"]
                /\ last' = NoEvent
                /\ images' = IF got.ext # ""
                             THEN Upload(images, ImagePath(key[p], got.ext), resp[p].body)
                             ELSE images
                /\ Settle([heap EXCEPT ![held[p]] = d], cache, held)
                /\ err' = [err EXCEPT ![p] = got.err]
                /\ body' = [body EXCEPT ![p] = d]
                /\ UNCHANGED <<before, given>>
    /\ resp' = [resp EXCEPT ![p] = NoResponse]
    /\ UNCHANGED <<store, hits, misses, key, res, deleted, used>>
    /\ UNCHANGED <<view, at, probe>>

\* await s3.put_object(Body=json.dumps(profile), ...): the write lands, or it
\* fails and save_profile raises.
SavePut(p, written) ==
    /\ UNCHANGED calls
    /\ pc[p] = "save_put"
    /\ IF written
       THEN /\ store' = [store EXCEPT ![ProfilePath(key[p])] = [exists |-> TRUE, body |-> body[p]]]
            /\ deleted' = deleted \ {key[p]}
            /\ pc' = [pc EXCEPT ![p] = "save_cache"]
            /\ last' = NoEvent
            /\ UNCHANGED <<heap, cache, held, err, before>>
       ELSE /\ pc' = [pc EXCEPT ![p] = "idle"]
            /\ last' = Event("save", p, key[p], "PutError", EmptyDoc, "")
            /\ Settle(heap, cache, [held EXCEPT ![p] = 0])
            /\ err' = [err EXCEPT ![p] = ""]
            /\ before' = [before EXCEPT ![p] = NoEntry]
            /\ UNCHANGED <<store, deleted>>
    /\ body' = [body EXCEPT ![p] = EmptyDoc]
    /\ given' = [given EXCEPT ![p] = EmptyDoc]
    /\ UNCHANGED <<images, hits, misses, key, res, resp, used>>
    /\ UNCHANGED <<view, at, probe>>

\* self.profile_cache[cache_key] = profile; return web_url, error_for_user
SaveCache(p) ==
    /\ UNCHANGED calls
    /\ pc[p] = "save_cache"
    /\ last' = [Event("save", p, key[p], "ok", EmptyDoc, err[p]) EXCEPT !.url = WebUrl(key[p])]
    /\ Settle(heap, CacheSet(cache, HashKey(key[p]), held[p]), [held EXCEPT ![p] = 0])
    /\ pc' = [pc EXCEPT ![p] = "idle"]
    /\ err' = [err EXCEPT ![p] = ""]
    /\ deleted' = deleted \ {key[p]}
    /\ before' = [before EXCEPT ![p] = NoEntry]
    /\ used' = Access(used, HashKey(key[p]))
    /\ UNCHANGED <<store, images, hits, misses, key, res, resp, body, given>>
    /\ UNCHANGED <<view, at, probe>>

\* delete_profile up to its await: del self.profile_cache[cache_key]
DeleteCall(p, k) ==
    /\ pc[p] = "idle"
    /\ calls < MaxCalls
    /\ calls' = calls + 1
    /\ pc' = [pc EXCEPT ![p] = "del_obj"]
    /\ key' = [key EXCEPT ![p] = k]
    /\ Settle(heap, CacheDel(cache, HashKey(k)), [held EXCEPT ![p] = 0])
    /\ last' = NoEvent
    /\ UNCHANGED <<store, images, hits, misses, res, err, resp, body, deleted, before, given,
                   used>>
    /\ UNCHANGED <<view, at, probe>>

\* await s3.delete_object(...): the object is removed, or the store fails and
\* delete_profile raises.
DeleteObj(p, removed) ==
    /\ UNCHANGED calls
    /\ pc[p] = "del_obj"
    /\ pc' = [pc EXCEPT ![p] = "idle"]
    /\ IF removed
       THEN /\ store' = [store EXCEPT ![ProfilePath(key[p])] = NoObject]
            /\ deleted' = deleted \cup {key[p]}
            /\ last' = Event("delete", p, key[p], "ok", EmptyDoc, "")
       ELSE /\ last' = Event("delete", p, key[p], "StorageFailure", EmptyDoc, "")
            /\ UNCHANGED <<store, deleted>>
    /\ UNCHANGED <<images, heap, cache, hits, misses, key, held, res, err, resp, body, before,
                   given, used>>
    /\ UNCHANGED <<view, at, probe>>

\* A call resumes after an await.
Resume(p) ==
    \/ FetchGet(p)
    \/ FetchFill(p)
    \/ \E o \in FetchOutcomes : SaveGet(p, o)
    \/ \E uploaded \in BOOLEAN : SaveSniff(p, uploaded)
    \/ \E written \in BOOLEAN : SavePut(p, written)
    \/ SaveCache(p)
    \/ \E removed \in BOOLEAN : DeleteObj(p, removed)

\* The commands of one member: every call is on that member's profile.
OneKey == {AnyKey}

\* A handler starts a call of the backend, or works on the dict it holds.
Start(p) ==
    \/ \E k \in OneKey : FetchCall(p, k)
    \/ \E k \in OneKey : \E d \in InputDocs(k) : SaveCall(p, k, d)
    \/ \E k \in OneKey : DeleteCall(p, k)
    \/ SaveHeld(p)
    \/ SetImage(p)
    \/ DelImage(p)

\* Any interleaving of the tasks at their awaits.
Next == \E p \in Tasks : Start(p) \/ Resume(p)
Spec == Init /\ [][Next]_vars

\* One task: its calls follow one another and never overlap.
Reader == CHOOSE p \in Tasks : TRUE
NextSeq == \E p \in {Reader} : Start(p) \/ Resume(p)
SpecSeq == Init /\ [][NextSeq]_vars

\* The cache after earlier commands saved the profiles of the members in order,
\* one save_profile after the other: each is in the bucket and in the cache, the
\* last one saved at the recent end.  save_profile looks nothing up, so the
\* counters are as __init__ left them.
SavedDoc == CHOOSE d \in EarlierDocs : TRUE
Orders ==
    UNION {{o \in [1..n -> Keys] : \A i, j \in 1..n : i # j => o[i] # o[j]} :
              n \in 0..CacheMaxSize}
InitCache ==
    \E order \in Orders :
        /\ cache = [i \in 1..Len(order) |-> [key |-> HashKey(order[i]), ref |-> i]]
        /\ heap = [r \in Refs |-> IF r <= Len(order) THEN SavedDoc ELSE EmptyDoc]
        /\ used = [i \in 1..Len(order) |-> HashKey(order[i])]
        /\ store = [path \in ProfilePaths |->
                      IF \E i \in 1..Len(order) : path = ProfilePath(order[i])
                      THEN [exists |-> TRUE, body |-> SavedDoc]
                      ELSE NoObject]
        /\ Idle

\* One task calls the backend for any member, saving the document above.
NextCache ==
    \/ \E k \in Keys : FetchCall(Reader, k)
    \/ \E k \in Keys : \E d \in EarlierDocs : SaveCall(Reader, k, d)
    \/ \E k \in Keys : DeleteCall(Reader, k)
    \/ FetchGet(Reader)
    \/ FetchFill(Reader)
    \/ \E written \in BOOLEAN : SavePut(Reader, written)
    \/ SaveCache(Reader)
    \/ \E removed \in BOOLEAN : DeleteObj(Reader, removed)
SpecCache == InitCache /\ [][NextCache]_vars

\* One task reads while the others write: a fetch overlaps a save or a delete.
NextFetchRace ==
    \/ \E k \in OneKey : FetchCall(Reader, k)
    \/ \E p \in Tasks \ {Reader} : \E k \in OneKey : \E d \in InputDocs(k) : SaveCall(p, k, d)
    \/ \E p \in Tasks \ {Reader} : \E k \in OneKey : DeleteCall(p, k)
    \/ \E p \in Tasks : Resume(p)
SpecFetchRace == Init /\ [][NextFetchRace]_vars

\* Tasks that only save: saves of one key overlap.
NextSaveRace ==
    \/ \E p \in Tasks : \E k \in OneKey : \E d \in InputDocs(k) : SaveCall(p, k, d)
    \/ \E p \in Tasks : \E o \in FetchOutcomes : SaveGet(p, o)
    \/ \E p \in Tasks : \E uploaded \in BOOLEAN : SaveSniff(p, uploaded)
    \/ \E p \in Tasks : \E written \in BOOLEAN : SavePut(p, written)
    \/ \E p \in Tasks : SaveCache(p)
SpecSaveRace == Init /\ [][NextSaveRace]_vars

\* One task's calls, where the source URL answers with one picture or another.
ImageOutcomes == [raised : {FALSE}, status : {200}, body : {"png", OtherPng}]
NextImages ==
    \/ Start(Reader)
    \/ FetchGet(Reader)
    \/ FetchFill(Reader)
    \/ \E o \in ImageOutcomes : SaveGet(Reader, o)
    \/ \E uploaded \in BOOLEAN : SaveSniff(Reader, uploaded)
    \/ \E written \in BOOLEAN : SavePut(Reader, written)
    \/ SaveCache(Reader)
    \/ \E removed \in BOOLEAN : DeleteObj(Reader, removed)
SpecImages == Init /\ [][NextImages]_vars

\* Every task works for another member: calls on different keys overlap at
\* their awaits.  The profiles saved are text alone or text and an attachment.
MemberOf(p) == CHOOSE k \in Keys : k.user = p
MemberDocs == EarlierDocs \cup {DictSet(d, ImageName, ProxyUrl) : d \in EarlierDocs}
NextKeys ==
    \/ \E p \in Tasks : FetchCall(p, MemberOf(p))
    \/ \E p \in Tasks : \E d \in MemberDocs : SaveCall(p, MemberOf(p), d)
    \/ \E p \in Tasks : DeleteCall(p, MemberOf(p))
    \/ \E p \in Tasks : FetchGet(p)
    \/ \E p \in Tasks : FetchFill(p)
    \/ \E p \in Tasks : \E o \in ImageOutcomes : SaveGet(p, o)
    \/ \E p \in Tasks : \E uploaded \in BOOLEAN : SaveSniff(p, uploaded)
    \/ \E p \in Tasks : \E written \in BOOLEAN : SavePut(p, written)
    \/ \E p \in Tasks : SaveCache(p)
    \/ \E p \in Tasks : \E removed \in BOOLEAN : DeleteObj(p, removed)
SpecKeys == InitCache /\ [][NextKeys]_vars

\* The bucket holds an object that was put there by other means than the bot.
InitForeign == StoreHolds(EarlierDocs \cup {NotJson, JsonArray}) /\ Fresh
SpecForeign == InitForeign /\ [][NextSeq]_vars

(***************************************************************************)
(* The DeleteProfile view of one member.  Its callbacks run on the         *)
(* Reader's task; a callback that awaits the backend goes on, when the     *)
(* call has returned or raised, before anything else runs.                 *)
(***************************************************************************)
Backend == <<store, images, heap, cache, hits, misses, pc, key, held, res, err, resp, body,
             calls, deleted, before, given, used>>

\* The confirmed callback is running and not suspended in an await of the
\* backend: nothing else runs until it awaits or ends.
Pending == at # "none" /\ pc[Reader] = "idle"

\* The profiles an earlier run may have left, with and without an image.
OwnImageUrl == UrlJoin(S3_ENDPOINT, S3_BUCKET, ImagePath(AnyKey, "png"))
EarlierImageDocs ==
    EarlierDocs \cup {DictSet(d, ImageName, OwnImageUrl) : d \in EarlierDocs \cup {EmptyDoc}}
InitDelete == StoreHolds(EarlierImageDocs) /\ Fresh

\* Before /delete: the member saves a profile (EditProfile.on_submit).
SaveBefore(d) ==
    /\ view.state = "Called"
    /\ SaveCall(Reader, AnyKey, d)

\* delete_entire_profile / delete_profile_image pressed in state Called.
FirstPress(variant) ==
    /\ view.state = "Called"
    /\ view.stopped = "no"
    /\ pc[Reader] = "idle"
    /\ view' = [view EXCEPT !.state = "WaitForConfirm", !.next = variant]
    /\ last' = NoEvent
    /\ UNCHANGED <<Backend, at, probe>>

\* confirm: self._state = DeleteState.Confirmed; await self._next(interaction)
Confirm ==
    /\ view.state = "WaitForConfirm"
    /\ view.stopped = "no"
    /\ at = "none"
    /\ view' = [view EXCEPT !.state = "Confirmed", !.seen = store[ProfilePath(AnyKey)]]
    /\ at' = "called"
    /\ last' = NoEvent
    /\ UNCHANGED <<Backend, probe>>

\* cancel: self._state = DeleteState.Cancelled, then _update_message.  The
\* Cancel button is on the message until the message is edited.
Cancel ==
    /\ view.state \in {"Called", "WaitForConfirm", "Confirmed"}
    /\ view.stopped = "no"
    /\ ~Pending
    /\ view' = [view EXCEPT !.state = "Cancelled", !.stopped = "pending"]
    /\ last' = NoEvent
    /\ UNCHANGED <<Backend, at, probe>>

\* _update_message after its edit_message: self.stop()
ViewStop ==
    /\ view.stopped = "pending"
    /\ ~Pending
    /\ view' = [view EXCEPT !.stopped = "yes"]
    /\ last' = NoEvent
    /\ UNCHANGED <<Backend, at, probe>>

\* The callback is over: with self._state = DeleteState.Deleted and
\* _update_message, or by the exception of the call.
Finish(how) ==
    /\ at' = "none"
    /\ view' = IF how = "Deleted"
               THEN [view EXCEPT !.state = "Deleted",
                                 !.stopped = IF @ = "yes" THEN "yes" ELSE "pending"]
               ELSE IF how = "Error" THEN [view EXCEPT !.state = "Error"]
               ELSE view
    /\ last' = NoEvent
    /\ UNCHANGED <<Backend, probe>>

\* delete_entire_profile in state Confirmed: await delete_profile(...)
EntireDelete ==
    /\ at = "called"
    /\ view.next = "entire"
    /\ last.op # "delete"
    /\ DeleteCall(Reader, AnyKey)
EntireDone ==
    /\ at = "called"
    /\ view.next = "entire"
    /\ last.op = "delete"
    /\ Finish(IF last.kind = "ok" THEN "Deleted" ELSE "raised")

\* delete_profile_image in state Confirmed: await fetch_profile(...)
ImageFetch ==
    /\ at = "called"
    /\ view.next = "image"
    /\ last.op # "fetch"
    /\ FetchCall(Reader, AnyKey)
\* except KeyError: Deleted; another error leaves the callback; else go on.
ImageFetched ==
    /\ at = "called"
    /\ view.next = "image"
    /\ last.op = "fetch"
    /\ IF last.kind = "ok"
       THEN /\ at' = "fetched"
            /\ last' = NoEvent
            /\ UNCHANGED <<Backend, view, probe>>
       ELSE Finish(IF last.kind = "KeyError" THEN "Deleted" ELSE "raised")
\* if user_profile: if Image.Name in user_profile: del user_profile[Image.Name]
ImageDel ==
    /\ at = "fetched"
    /\ DelImage(Reader)
\* A delete_profile_image that deletes the whole profile whatever is left.
ImageSaveDeletes ==
    /\ at = "fetched"
    /\ held[Reader] # 0
    /\ ImageName \notin DOMAIN heap[held[Reader]]
    /\ heap[held[Reader]] # EmptyDoc
    /\ last.op # "delete"
    /\ DeleteCall(Reader, AnyKey)
\* if user_profile: await save_profile(..., user_profile)
ImageSave ==
    /\ at = "fetched"
    /\ held[Reader] # 0
    /\ ImageName \notin DOMAIN heap[held[Reader]]
    /\ heap[held[Reader]] # EmptyDoc
    /\ last.op # "save"
    /\ SaveHeld(Reader)
\* else: await delete_profile(...)
ImageDelete ==
    /\ at = "fetched"
    /\ held[Reader] # 0
    /\ heap[held[Reader]] = EmptyDoc
    /\ last.op # "delete"
    /\ DeleteCall(Reader, AnyKey)
\* if self._error: Error; else Deleted; an exception leaves the callback.
ImageDone ==
    /\ at = "fetched"
    /\ last.op \in {"save", "delete"}
    /\ Finish(IF last.kind # "ok" THEN "raised"
              ELSE IF last.warn # "" THEN "Error" ELSE "Deleted")

NextDelete ==
    \/ \E d \in InputDocs(AnyKey) : SaveBefore(d)
    \/ \E variant \in {"entire", "image"} : FirstPress(variant)
    \/ Confirm
    \/ Cancel
    \/ ViewStop
    \/ EntireDelete
    \/ EntireDone
    \/ ImageFetch
    \/ ImageFetched
    \/ ImageDel
    \/ ImageSave
    \/ ImageDelete
    \/ ImageDone
    \/ Resume(Reader)
SpecDelete == InitDelete /\ [][NextDelete]_vars

(***************************************************************************)
(* Object keys and the viewer URL as text: the bot derives the key in      *)
(* fetch_profile, delete_profile and save_profile, save_profile returns    *)
(* the viewer URL, and the web front-end parses that URL and derives the   *)
(* key again.                                                              *)
(***************************************************************************)
\* templates.py: the Name of ProfileTemplate and of RoasterTemplate, and the
\* guilds of all_templates() as str(guild_id) prints them.
TemplateNames == {"Coffee Setup", "Roasting Setup"}
GuildIds == {"1013566342345019512", "726985544038612993"}
Triples == [template : TemplateNames, guild : GuildIds, user : Users]

\* An Optional value: <<>> is None, <<v>> is v.
None == <<>>
Some(v) == <<v>>

CharAt(s, i) == SubSeq(s, i, i)
Drop(s, n) == SubSeq(s, n + 1, Len(s))
HasChar(s, c) == \E i \in 1..Len(s) : CharAt(s, i) = c
EndsWith(s, suffix) ==
    Len(s) >= Len(suffix) /\ SubSeq(s, Len(s) - Len(suffix) + 1, Len(s)) = suffix
Contains(s, part) ==
    \E i \in 1..Len(s) : i + Len(part) - 1 <= Len(s) /\ SubSeq(s, i, i + Len(part) - 1) = part

\* A join that puts no separator between the parts.
JoinTwoGlued(a, b) == a \o b
\* posixpath.join(a, b): an absolute b replaces a, otherwise the parts are
\* joined by one "/".
JoinTwo(a, b) ==
    IF Len(b) >= 1 /\ CharAt(b, 1) = "/" THEN b
    ELSE IF a = "" \/ EndsWith(a, "/") THEN a \o b
    ELSE a \o "/" \o b
OsPathJoin(a, b, c, d) == JoinTwo(JoinTwo(JoinTwo(a, b), c), d)

\* fetch_profile: os.path.join("profiles", str(guild_id), template.Name, f"{user_id}.json")
FetchPath(t) == OsPathJoin("profiles", t.guild, t.template, ToString(t.user) \o ".json")
\* delete_profile: the same expression
DeletePath(t) == OsPathJoin("profiles", t.guild, t.template, ToString(t.user) \o ".json")
\* save_profile: the same expression
SavePath(t) == OsPathJoin("profiles", t.guild, t.template, ToString(t.user) \o ".json")
\* sprobot-web S3Client.fetch_profile: f"profiles/{guild_id}/{template_name}/{user_id}.json"
ViewerPath(guild_id, template_name, user_id) ==
    "profiles/" \o guild_id \o "/" \o template_name \o "/" \o user_id \o ".json"

\* urllib.parse.quote(s): letters, digits, "_.-~" and "/" stay, any other
\* character becomes "%" and its code.
SafeChars == "abcdefghijklmnopqrstuvwxyzABCDEFGHIJKLMNOPQRSTUVWXYZ0123456789_.-~/"
PercentCode == [c \in {" ", "%", ":", "?", "#"} |->
                   CASE c = " " -> "%20"
                     [] c = "%" -> "%25"
                     [] c = ":" -> "%3A"
                     [] c = "?" -> "%3F"
                     [] c = "#" -> "%23"]
\* A quote that encodes nothing.
QuoteNothing(s) == s
RECURSIVE Quote(_)
Quote(s) ==
    IF s = "" THEN ""
    ELSE LET c == CharAt(s, 1)
         IN  (IF HasChar(SafeChars, c) THEN c ELSE PercentCode[c]) \o Quote(Drop(s, 1))

\* The request path as the route sees it: "%" and two digits are the character
\* of that code.
RECURSIVE Unquote(_)
Unquote(s) ==
    IF s = "" THEN ""
    ELSE IF CharAt(s, 1) = "%" /\ Len(s) >= 3
               /\ \E c \in DOMAIN PercentCode : PercentCode[c] = SubSeq(s, 1, 3)
         THEN (CHOOSE c \in DOMAIN PercentCode : PercentCode[c] = SubSeq(s, 1, 3))
                  \o Unquote(Drop(s, 3))
         ELSE CharAt(s, 1) \o Unquote(Drop(s, 1))

\* urllib.parse.urljoin(base, url) for a relative url without dot segments: url
\* replaces what follows the last "/" of base's path, and is the whole path
\* when base has scheme and host but no path.
LastSlash(s) ==
    IF HasChar(s, "/")
    THEN CHOOSE i \in 1..Len(s) :
             CharAt(s, i) = "/" /\ \A j \in (i + 1)..Len(s) : CharAt(s, j) # "/"
    ELSE 0
\* The length of scheme and host of a URL, 0 when it has none.
OriginLen(s) ==
    IF Contains(s, "://")
    THEN LET i == CHOOSE i \in 1..Len(s) :
                      SubSeq(s, i, i + 2) = "://" /\ ~Contains(SubSeq(s, 1, i + 1), "://")
             rest == Drop(s, i + 2)
         IN  IF HasChar(rest, "/")
             THEN i + 2 + (CHOOSE j \in 1..Len(rest) :
                              CharAt(rest, j) = "/" /\ ~HasChar(SubSeq(rest, 1, j - 1), "/")) - 1
             ELSE Len(s)
    ELSE 0
UrlJoinText(base, url) ==
    IF url = "" THEN base
    ELSE LET origin == SubSeq(base, 1, OriginLen(base))
             path == Drop(base, OriginLen(base))
         IN  IF origin # "" /\ path = ""
             THEN origin \o "/" \o url
             ELSE origin \o SubSeq(path, 1, LastSlash(path)) \o url

\* save_profile's web_url
SaveWebUrl(t) ==
    UrlJoinText(SPROBOT_WEB_ENDPOINT, UrlJoinText(S3_BUCKET \o "/", Quote(SavePath(t))))

\* The path of a URL: what follows scheme and host.
PathOf(url) ==
    LET rest == Drop(url, (CHOOSE i \in 1..Len(url) : SubSeq(url, i, i + 2) = "://") + 2)
    IN  IF HasChar(rest, "/")
        THEN Drop(rest, (CHOOSE i \in 1..Len(rest) :
                            CharAt(rest, i) = "/" /\ ~HasChar(SubSeq(rest, 1, i - 1), "/")) - 1)
        ELSE "/"

\* The segments of a path between its "/".
RECURSIVE Split(_)
Split(s) ==
    IF ~HasChar(s, "/") THEN <<s>>
    ELSE LET i == CHOOSE i \in 1..Len(s) :
                      CharAt(s, i) = "/" /\ ~HasChar(SubSeq(s, 1, i - 1), "/")
         IN  <<SubSeq(s, 1, i - 1)>> \o Split(Drop(s, i))

\* @app.route("/<bucket>/profiles/<guild_id>/<template_name>/<user_id>.json"): each
\* variable is a non-empty segment.
NoMatch == [matched |-> FALSE, bucket |-> "", guild_id |-> "", template_name |-> "",
            user_id |-> ""]
Route(path) ==
    LET segs == Split(path)
    IN  IF /\ Len(segs) = 6
           /\ segs[1] = ""
           /\ segs[2] # ""
           /\ segs[3] = "profiles"
           /\ segs[4] # ""
           /\ segs[5] # ""
           /\ EndsWith(segs[6], ".json")
           /\ Len(segs[6]) > Len(".json")
        THEN [matched |-> TRUE, bucket |-> segs[2], guild_id |-> segs[4],
              template_name |-> segs[5],
              user_id |-> SubSeq(segs[6], 1, Len(segs[6]) - Len(".json"))]
        ELSE NoMatch

\* Two commands are picked: the profile of a, and the profile of another b.
Choose(a, b) ==
    /\ probe = NoProbe
    /\ probe' = [op |-> "ask", a |-> a, b |-> b]
    /\ last' = NoEvent
    /\ UNCHANGED <<Backend, view, at>>

\* Each operation derives the key of a; save_profile derives the key of b.
DerivePaths ==
    /\ probe.op = "ask"
    /\ probe' = [op |-> "paths", a |-> probe.a, b |-> probe.b,
                 fetch |-> FetchPath(probe.a),
                 delete |-> DeletePath(probe.a),
                 save |-> SavePath(probe.a),
                 web |-> ViewerPath(probe.a.guild, probe.a.template, ToString(probe.a.user)),
                 other |-> SavePath(probe.b)]
    /\ last' = NoEvent
    /\ UNCHANGED <<Backend, view, at>>

\* save_profile returns the viewer URL of a.
SaveUrl ==
    /\ probe.op = "paths"
    /\ probe' = [op |-> "url", a |-> probe.a, b |-> probe.b, save |-> probe.save,
                 url |-> SaveWebUrl(probe.a)]
    /\ last' = NoEvent
    /\ UNCHANGED <<Backend, view, at>>

\* show_profile: the route takes the URL apart and S3Client.fetch_profile reads
\* the object of its own bucket (SPROBOT_S3_BUCKET, as the bot's) under the key
\* it derives.
ShowProfile ==
    /\ probe.op = "url"
    /\ LET r == Route(Unquote(PathOf(probe.url)))
       IN  probe' = [op |-> "shown", a |-> probe.a, b |-> probe.b, save |-> probe.save,
                     url |-> probe.url, route |-> r,
                     read |-> IF r.matched
                              THEN [bucket |-> S3_BUCKET,
                                    key |-> ViewerPath(r.guild_id, r.template_name, r.user_id)]
                              ELSE [bucket |-> "", key |-> ""]]
    /\ last' = NoEvent
    /\ UNCHANGED <<Backend, view, at>>

InitPaths == StoreHolds({}) /\ Fresh
NextPaths ==
    \/ \E a, b \in Triples : Choose(a, b)
    \/ DerivePaths
    \/ SaveUrl
    \/ ShowProfile
SpecPaths == InitPaths /\ [][NextPaths]_vars

(***************************************************************************)
(* Construction of the storage clients from the environment: the bot's     *)
(* S3Backend (backend.py, s3_backend = S3Backend() at import) and the      *)
(* viewer's S3Client (sprobot-web/s3.py, s3_client = S3Client()).          *)
(***************************************************************************)
Settings == <<"SPROBOT_S3_KEY", "SPROBOT_S3_SECRET", "SPROBOT_S3_ENDPOINT", "SPROBOT_S3_BUCKET">>
SettingNames == {Settings[i] : i \in 1..Len(Settings)}
\* os.environ: each setting is unset, set to the empty string, or set.
Environs == UNION {[names -> {"", "set"}] : names \in SUBSET SettingNames}
\* os.environ.get(name, "")
EnvGet(env, name) == IF name \in DOMAIN env THEN env[name] ELSE ""
Complete(env) == \A name \in SettingNames : EnvGet(env, name) # ""

\* S3Backend.__init__: the first setting, in the order of the checks, that is
\* missing or empty raises KeyError; "" when none does.
BackendRaises(env) ==
    IF \E i \in 1..Len(Settings) : EnvGet(env, Settings[i]) = ""
    THEN "KeyError: " \o
         Settings[CHOOSE i \in 1..Len(Settings) :
                      /\ EnvGet(env, Settings[i]) = ""
                      /\ \A j \in 1..(i - 1) : EnvGet(env, Settings[j]) # ""]
         \o " env var is undefined!"
    ELSE ""

\* The process starts in an environment.
Environ(env) ==
    /\ probe = NoProbe
    /\ probe' = [op |-> "env", env |-> env]
    /\ last' = NoEvent
    /\ UNCHANGED <<Backend, view, at>>

\* import backend: s3_backend = S3Backend()
BackendInit ==
    /\ probe.op = "env"
    /\ probe' = [op |-> "S3Backend", env |-> probe.env, raised |-> BackendRaises(probe.env)]
    /\ last' = NoEvent
    /\ UNCHANGED <<Backend, view, at>>

\* A command calls backend.s3_backend: the module was imported.
BackendUse ==
    /\ probe.op = "S3Backend"
    /\ probe.raised = ""
    /\ probe' = [op |-> "S3Backend call", env |-> probe.env, raised |-> ""]
    /\ last' = NoEvent
    /\ UNCHANGED <<Backend, view, at>>

\* sprobot-web: s3_client = S3Client().  __init__ reads the four settings with
\* "" as default and checks none; boto3.client is given them and may refuse an
\* empty endpoint_url, nothing else.
ClientInit(refused) ==
    /\ probe.op = "env"
    /\ refused => EnvGet(probe.env, "SPROBOT_S3_ENDPOINT") = ""
    /\ probe' = [op |-> "S3Client", env |-> probe.env,
                 raised |-> IF refused THEN "ValueError: Invalid endpoint" ELSE ""]
    /\ last' = NoEvent
    /\ UNCHANGED <<Backend, view, at>>

\* show_profile calls s3_client.fetch_profile: get_object(Bucket=self.bucket, ...)
ClientUse ==
    /\ probe.op = "S3Client"
    /\ probe.raised = ""
    /\ probe' = [op |-> "S3Client call", env |-> probe.env, raised |-> ""]
    /\ last' = NoEvent
    /\ UNCHANGED <<Backend, view, at>>

NextConfig ==
    \/ \E env \in Environs : Environ(env)
    \/ BackendInit
    \/ BackendUse
    \/ \E refused \in BOOLEAN : ClientInit(refused)
    \/ ClientUse
SpecConfig == InitPaths /\ [][NextConfig]_vars

(***************************************************************************)
(* The URL of a relocated image as text, and its test on a later save.     *)
(***************************************************************************)
\* SPROBOT_S3_ENDPOINT as a deployment may set it: a host, a host with a
\* trailing "/", a host with a port, a host with a path prefix.
Endpoints == {S3_ENDPOINT, S3_ENDPOINT \o "/", "http://localhost:9000",
              "https://objects.example.com/s3"}
Extensions == {"png", "jpg"}
\* os.path.join("images", str(guild_id), template.Name, f"{user_id}.{kind.extension}")
ImagePathText(t, extension) ==
    OsPathJoin("images", t.guild, t.template, ToString(t.user) \o "." \o extension)
\* s3_final_url = urljoin(endpoint, urljoin(f"{bucket}/", quote(s3_path)))
S3FinalUrl(endpoint, t, extension) ==
    UrlJoinText(endpoint, UrlJoinText(S3_BUCKET \o "/", Quote(ImagePathText(t, extension))))
\* str.startswith
StartsWithText(s, prefix) == Len(s) >= Len(prefix) /\ SubSeq(s, 1, Len(prefix)) = prefix

\* A save_profile relocated the image of t: the document it persisted holds
\* s3_final_url in the image field.
Relocated(endpoint, t, extension) ==
    /\ probe = NoProbe
    /\ probe' = [op |-> "relocated", endpoint |-> endpoint, t |-> t,
                 url |-> S3FinalUrl(endpoint, t, extension)]
    /\ last' = NoEvent
    /\ UNCHANGED <<Backend, view, at>>

\* That document is saved again: _get_image_s3_url returns ("", None) for no
\* URL, ("", maybeURL) for a URL that starts with the endpoint, and fetches the
\* URL otherwise.
Resave ==
    /\ probe.op = "relocated"
    /\ LET maybeURL == probe.url
           early == maybeURL = "" \/ StartsWithText(maybeURL, probe.endpoint)
       IN  probe' = [op |-> "resave", endpoint |-> probe.endpoint, t |-> probe.t,
                     url |-> probe.url,
                     fetch |-> ~early,
                     image_url |-> IF maybeURL # "" /\ early THEN Some(maybeURL) ELSE None]
    /\ last' = NoEvent
    /\ UNCHANGED <<Backend, view, at>>

NextOwned ==
    \/ \E endpoint \in Endpoints : \E t \in Triples : \E extension \in Extensions :
          Relocated(endpoint, t, extension)
    \/ Resave
SpecOwned == InitPaths /\ [][NextOwned]_vars

(***************************************************************************)
(* templates.py: the two templates, the registry all_templates(), and the  *)
(* edit form that EditProfile.__init__ builds from a template.             *)
(***************************************************************************)
Field(name, placeholder, style) == [Name |-> name, Placeholder |-> placeholder, Style |-> style]

\* A template with a sixth field.
ProfileTemplateSixFields ==
    [Name |-> "Coffee Setup",
     ShortName |-> "profile",
     Description |-> "Edit or Create your profile",
     Fields |-> <<Field("Machine", "A description of your machine(s).", "long"),
                  Field("Grinder", "A description of your grinder(s).", "long"),
                  Field("Favorite Beans", "What are your favorite beans / roasts?", "long"),
                  Field("Pronouns", "What are your preferred pronouns?", "short"),
                  Field("Location", "Where are you located?", "short"),
                  Field("Kettle", "What kettle do you use?", "short")>>,
     Image |-> Field("Gear Picture", "Please put a link to an image of your machine here!",
                     "short")]
ProfileTemplate ==
    [Name |-> "Coffee Setup",
     ShortName |-> "profile",
     Description |-> "Edit or Create your profile",
     Fields |-> <<Field("Machine", "A description of your machine(s).", "long"),
                  Field("Grinder", "A description of your grinder(s).", "long"),
                  Field("Favorite Beans", "What are your favorite beans / roasts?", "long"),
                  Field("Pronouns", "What are your preferred pronouns?", "short"),
                  Field("Location", "Where are you located?", "short")>>,
     Image |-> Field("Gear Picture", "Please put a link to an image of your machine here!",
                     "short")]

\* A template with a field named as its image field.
RoasterTemplateImageTwice ==
    [Name |-> "Roasting Setup",
     ShortName |-> "roaster",
     Description |-> "Edit or Create your profile",
     Fields |-> <<Field("Roasting Machine", "A description of your machine(s).", "long"),
                  Field("Favorite Greens", "What are your favorite greens to work with?", "long"),
                  Field("Website", "Link to your website.", "short"),
                  Field("Gear Picture", "What are you located?", "short")>>,
     Image |-> Field("Gear Picture", "Please put a link to an image of your machine here!",
                     "short")]
RoasterTemplate ==
    [Name |-> "Roasting Setup",
     ShortName |-> "roaster",
     Description |-> "Edit or Create your profile",
     Fields |-> <<Field("Roasting Machine", "A description of your machine(s).", "long"),
                  Field("Favorite Greens", "What are your favorite greens to work with?", "long"),
                  Field("Website", "Link to your website.", "short"),
                  Field("Location", "What are you located?", "short")>>,
     Image |-> Field("Gear Picture", "Please put a link to an image of your machine here!",
                     "short")]

\* os.environ with SPROBOT_ENV unset or set to one of these values.
EnvValues == {"dev", "prod", "", "DEV", "staging"}
TemplateEnvirons == UNION {[names -> EnvValues] : names \in SUBSET {"SPROBOT_ENV"}}
\* os.environ.get(name), dict.get(name)
Get(d, name) == IF name \in DOMAIN d THEN Some(d[name]) ELSE None

NoTemplates == [guild \in {} |-> <<>>]
\* A registry that takes every environment but dev for prod.
all_templates_prod_default(environ) ==
    IF Get(environ, "SPROBOT_ENV") = Some("dev")
    THEN [guild \in {"1013566342345019512"} |-> <<ProfileTemplate, RoasterTemplate>>]
    ELSE [guild \in {"726985544038612993"} |-> <<ProfileTemplate, RoasterTemplate>>]
\* all_templates(): the guild ids are written as str() prints them.
all_templates(environ) ==
    LET env == Get(environ, "SPROBOT_ENV")
    IN  IF env = Some("dev")
        THEN [guild \in {"1013566342345019512"} |-> <<ProfileTemplate, RoasterTemplate>>]
        ELSE IF env = Some("prod")
        THEN [guild \in {"726985544038612993"} |-> <<ProfileTemplate, RoasterTemplate>>]
        ELSE NoTemplates

\* The profiles a member of the template may have: any of its fields and the image.
ProfilesOf(template) ==
    UNION {[fs -> {"x"}] :
              fs \in SUBSET ({template.Fields[i].Name : i \in 1..Len(template.Fields)}
                                 \cup {template.Image.Name})}
\* EditProfile.__init__: one TextInput for each field of the template.
EditProfileItems(template, profile) ==
    [i \in 1..Len(template.Fields) |->
        [label |-> template.Fields[i].Name,
         placeholder |-> template.Fields[i].Placeholder,
         style |-> template.Fields[i].Style,
         default |-> Get(profile, template.Fields[i].Name)]]

\* The bot starts: all_templates() in the environment of the process.
TemplatesLookup(environ) ==
    /\ probe = NoProbe
    /\ probe' = [op |-> "templates", environ |-> environ, result |-> all_templates(environ)]
    /\ last' = NoEvent
    /\ UNCHANGED <<Backend, view, at>>

\* A member opens the edit form of a template of the guild.
EditForm(guild, i, profile) ==
    /\ probe.op = "templates"
    /\ guild \in DOMAIN probe.result
    /\ i \in 1..Len(probe.result[guild])
    /\ profile \in ProfilesOf(probe.result[guild][i])
    /\ probe' = [op |-> "form", environ |-> probe.environ, result |-> probe.result,
                 template |-> probe.result[guild][i],
                 saved_image_url |-> Get(profile, probe.result[guild][i].Image.Name),
                 items |-> EditProfileItems(probe.result[guild][i], profile)]
    /\ last' = NoEvent
    /\ UNCHANGED <<Backend, view, at>>

AnyProfiles == ProfilesOf(ProfileTemplate) \cup ProfilesOf(RoasterTemplate)
NextTemplates ==
    \/ \E environ \in TemplateEnvirons : TemplatesLookup(environ)
    \/ \E guild \in GuildIds : \E i \in 1..2 : \E profile \in AnyProfiles :
          EditForm(guild, i, profile)
SpecTemplates == InitPaths /\ [][NextTemplates]_vars

(***************************************************************************)
(* The forum reminder (main.py): every sweep of send_forum_reminder walks   *)
(* the threads of the help forum.  probe holds the forum as Discord has it  *)
(* and the client's skip_thread_list.  Ages are counted in ticks and the    *)
(* two settings of ThreadHelpInfo are scaled down.                          *)
(***************************************************************************)
Threads == {"espresso-help", "grinder-help"}
max_thread_age == 1
history_limit == 2

\* A thread as its owner has just opened it: the owner's post alone.
NewThread ==
    [archived |-> FALSE, locked |-> FALSE, age |-> 0, posts |-> 1, reply |-> FALSE,
     reminders |-> 0]

Least(a, b) == IF a < b THEN a ELSE b
ForumStep == last' = NoEvent /\ UNCHANGED <<Backend, view, at>>
InForum == probe.op = "forum"

\* self.skip_thread_list[thread.id] = reason, which nothing forgets.
SkipForNothing(list, t, reason) == list
SkipFor(list, t, reason) == [list EXCEPT ![t] = reason]

\* setup_hook: self.skip_thread_list = dict(); self.send_forum_reminder.start()
SetupHook ==
    /\ probe = NoProbe
    /\ probe' = [op |-> "forum",
                 thread |-> [t \in Threads |-> NewThread],
                 skip_thread_list |-> [t \in Threads |-> ""],
                 todo |-> {}, reading |-> "", seen |-> NewThread,
                 skipped |-> {}]
    /\ ForumStep

\* Somebody posts in a thread: what thread.history will return.
Post(t, who) ==
    /\ InForum
    /\ ~probe.thread[t].locked
    /\ probe' = [probe EXCEPT !.thread[t].posts = Least(@ + 1, history_limit),
                              !.thread[t].reply = @ \/ who # "owner"]
    /\ ForumStep

\* A moderator archives, locks or reopens a thread: thread.archived, thread.locked.
Moderate(t, archived, locked) ==
    /\ InForum
    /\ <<archived, locked>> # <<probe.thread[t].archived, probe.thread[t].locked>>
    /\ probe' = [probe EXCEPT !.thread[t].archived = archived,
                              !.thread[t].locked = locked]
    /\ ForumStep

\* Time passes: now - thread.created_at grows for every thread.
Tick ==
    /\ InForum
    /\ \E t \in Threads : probe.thread[t].age <= max_thread_age
    /\ probe' = [probe EXCEPT !.thread =
                    [t \in Threads |-> [@[t] EXCEPT !.age = Least(@ + 1, max_thread_age + 1)]]]
    /\ ForumStep

\* @tasks.loop(minutes=30): the next sweep begins when the last one is over.
SweepStart ==
    /\ InForum
    /\ probe.todo = {}
    /\ probe.reading = ""
    /\ probe' = [probe EXCEPT !.todo = Threads]
    /\ ForumStep

\* for thread in channel.threads: the skip list, archived or locked, the age;
\* then thread.history(limit=info.history_limit), which may raise and end the
\* sweep.
Examine(t, raised) ==
    /\ InForum
    /\ t \in probe.todo
    /\ probe.reading = ""
    /\ LET thread == probe.thread[t]
           passed == /\ probe.skip_thread_list[t] = ""
                     /\ ~(thread.archived \/ thread.locked)
                     /\ ~(thread.age < max_thread_age)
       IN  IF ~passed
           THEN /\ ~raised
                /\ probe' = [probe EXCEPT !.todo = @ \ {t}]
           ELSE IF raised
           THEN probe' = [probe EXCEPT !.todo = {}]
           ELSE probe' = [probe EXCEPT !.reading = t, !.seen = thread]
    /\ ForumStep

\* After the history: found_non_op_author, number_of_posts_searched, or
\* thread.send, which may raise and end the sweep, and the entry in the skip
\* list.
Decide(raised) ==
    /\ InForum
    /\ probe.reading # ""
    /\ LET t == probe.reading
           found_non_op_author == probe.seen.reply
           number_of_posts_searched == Least(probe.seen.posts, history_limit)
           over == [probe EXCEPT !.reading = "", !.todo = @ \ {t}]
       IN  IF found_non_op_author
           THEN /\ ~raised
                /\ probe' = [over EXCEPT
                               !.skip_thread_list = SkipFor(@, t, "non-op author"),
                               !.skipped = @ \cup {t}]
           ELSE IF number_of_posts_searched >= history_limit
           THEN /\ ~raised
                /\ probe' = [over EXCEPT
                               !.skip_thread_list = SkipFor(@, t, "too many replies"),
                               !.skipped = @ \cup {t}]
           ELSE IF raised
           THEN probe' = [over EXCEPT !.todo = {}]
           ELSE probe' = [over EXCEPT
                            !.thread[t].reminders = Least(@ + 1, 2),
                            !.thread[t].posts = Least(@ + 1, history_limit),
                            !.thread[t].reply = TRUE,
                            !.skip_thread_list = SkipFor(@, t, "already sent")]
    /\ ForumStep

NextForum ==
    \/ SetupHook
    \/ \E t \in Threads, who \in {"owner", "other"} : Post(t, who)
    \/ \E t \in Threads, archived, locked \in BOOLEAN : Moderate(t, archived, locked)
    \/ Tick
    \/ SweepStart
    \/ \E t \in Threads, raised \in BOOLEAN : Examine(t, raised)
    \/ \E raised \in BOOLEAN : Decide(raised)
SpecForum == InitPaths /\ [][NextForum]_vars

(***************************************************************************)
(* The mod log (commands.py): ModLogMessage.on_submit copies the content of *)
(* the archived message into the fields of an embed.  The split size and    *)
(* the length of a message are scaled down.                                 *)
(***************************************************************************)
EMBED_SPLIT_SIZE == 3
MaxContent == 7

RECURSIVE Texts(_)
Texts(n) ==
    IF n = 0 THEN {""}
    ELSE LET shorter == Texts(n - 1)
         IN  shorter \cup {x \o c : x \in shorter, c \in {"a", "b"}}

\* content[from : to] of Python, from counted from 0.
Slice(content, from, to) == SubSeq(content, from + 1, Least(to, Len(content)))

\* for i in itertools.count(): buf_loc = i * EMBED_SPLIT_SIZE;
\* if buf_loc > len(content): break; add_field(value=content[buf_loc : buf_loc + EMBED_SPLIT_SIZE])
RECURSIVE SplitFields(_, _)
SplitFields(content, i) ==
    LET buf_loc == i * EMBED_SPLIT_SIZE
    IN  IF buf_loc > Len(content) THEN <<>>
        ELSE <<Slice(content, buf_loc, buf_loc + EMBED_SPLIT_SIZE)>>
                 \o SplitFields(content, i + 1)

\* The moderator opens the modal on a message: ModLogMessage(client, message, ...)
SaveToModLog(content) ==
    /\ probe = NoProbe
    /\ probe' = [op |-> "modal", content |-> content]
    /\ ForumStep

\* on_submit: if self.message.content: the fields of the content.
OnSubmit ==
    /\ probe.op = "modal"
    /\ probe' = [op |-> "embed", content |-> probe.content,
                 fields |-> IF probe.content # "" THEN SplitFields(probe.content, 0)
                            ELSE <<>>]
    /\ ForumStep

NextModLog ==
    \/ \E content \in Texts(MaxContent) : SaveToModLog(content)
    \/ OnSubmit
SpecModLog == InitPaths /\ [][NextModLog]_vars

(***************************************************************************)
(* What the claims speak of.                                               *)
(***************************************************************************)
\* The stored object of a key.
Stored(k) == store[ProfilePath(k)]
\* fetch_profile would return the cached document without asking the store.
ServedFromCache(k) == Cached(k).has /\ Cached(k).doc # EmptyDoc /\ IsDict(Cached(k).doc)
IsEmptyValue(f, v) == IF f = ImageName THEN v = EmptyUrl ELSE v = ""
TextPart(d) == [f \in DOMAIN d \ {ImageName} |-> d[f]]

\* C1: with calls that never overlap, a fetch_profile that returns a document
\* returns exactly the document the store holds for the key (the one the last
\* successful save_profile persisted), and it raises KeyError only when the
\* store holds none.
C1_FetchReturnsLastSaved ==
    last.op = "fetch" =>
        /\ last.kind = "ok" => Stored(last.key) = [exists |-> TRUE, body |-> last.doc]
        /\ last.kind = "KeyError" => ~Stored(last.key).exists

\* C2: a step in which a handler changes the dict it got from fetch_profile
\* leaves every cached document as it was.
C2_CacheHoldsOwnCopy ==
    [][(pc' = pc /\ calls' = calls /\ cache' = cache) =>
           \A i \in 1..Len(cache) : heap'[cache[i].ref] = heap[cache[i].ref]]_vars

C4_NoEmptyValuePersisted ==
    \A k \in Keys :
        Stored(k).exists =>
            \A f \in DOMAIN Stored(k).body : ~IsEmptyValue(f, Stored(k).body[f])

\* C5 as claimed: save_profile raises only when the put_object of the profile
\* document fails.
C5_OnlyDocumentWriteRaises ==
    (last.op = "save" /\ last.kind # "ok") => last.kind = "PutError"

\* C5 as amended: save_profile raises only when a write to the store fails, the
\* put_object of the document or the upload of an image that passed the sniff; a
\* GET that raises, an unrecognised type and a non-image type all lead on to the
\* put_object.
C5_OnlyStoreWritesRaise ==
    [][\A p \in Tasks :
        /\ (pc[p] = "save_sniff" /\ pc'[p] # pc[p]) =>
              \/ pc'[p] = "save_put"
              \/ /\ ~resp[p].raised
                 /\ Guess(resp[p].body).known
                 /\ IsImageMime(Guess(resp[p].body))
                 /\ last'.kind = "UploadError"
        /\ (pc[p] = "save_img" /\ pc'[p] # pc[p]) => pc'[p] = "save_sniff"
        /\ (last'.op = "save" /\ last'.task = p /\ last'.kind # "ok") =>
              pc[p] \in {"save_sniff", "save_put"}]_vars

\* A save_profile whose image was rejected as a non-image has returned normally.
C5_Witness ==
    /\ last.op = "save"
    /\ last.kind = "ok"
    /\ last.warn = NotImageMsg

\* C6: a response with a 4xx or 5xx status is rejected with the fetch-failure
\* message whatever its body: nothing is uploaded and the document to write has
\* no image field.
C6_ErrorStatusIsRejected ==
    [][\A p \in Tasks :
        (pc[p] = "save_sniff" /\ ~resp[p].raised /\ resp[p].status >= 400
            /\ pc'[p] # pc[p]) =>
              /\ pc'[p] = "save_put"
              /\ err'[p] = FetchErrorMsg
              /\ images' = images
              /\ ImageName \notin DOMAIN body'[p]]_vars

\* C7: while a key is deleted and not saved since, no fetch_profile called for
\* it returns a document, and one that asks the store gets KeyError or the
\* store's failure.
C7_FetchAfterDeleteNotFound ==
    [][\A p \in Tasks :
        (last'.op = "fetch" /\ last'.task = p /\ pc[p] \in {"idle", "fetch_get"}
            /\ last'.key \in deleted) =>
              last'.kind \in {"KeyError", "StorageFailure"}]_vars

\* C8: when no call is in flight, a cached document that fetch_profile would
\* serve is the document the store holds (so a deleted key is not served).
C8_NoStaleCacheAfterRace ==
    Quiet =>
        \A k \in Keys :
            ServedFromCache(k) => Stored(k) = [exists |-> TRUE, body |-> Cached(k).doc]

\* C9: when all saves have completed, the cache entry of the key equals the
\* document in the store.
C9_CacheMatchesStoreAfterSaves ==
    (Quiet /\ \A q \in Tasks : held[q] = 0) =>
        \A k \in Keys :
            Cached(k).has => (Stored(k).exists /\ Stored(k).body = Cached(k).doc)

\* C10: when save_profile raises because its put_object failed, the key's cache
\* entry is what it was when save_profile was called.
C10_FailedSaveLeavesCache ==
    [][\A p \in Tasks : \A k \in Keys :
        (last'.op = "save" /\ last'.kind = "PutError" /\ last'.task = p /\ last'.key = k) =>
            Cached(k)' = before[p]]_vars

\* C11: when the confirmed delete_profile_image completes in state Deleted, a
\* profile that had the image and another field is stored without the image and
\* with every other field as it was, a profile that had only the image is
\* deleted, and with no profile nothing is written.
C11_ImageOnlyDelete ==
    [][LET was == view.seen
           now == Stored(AnyKey)'
       IN  /\ (at # "none" /\ at' = "none" /\ view.next = "image" /\ view'.state = "Deleted") =>
                 /\ (was.exists /\ ImageName \in DOMAIN was.body
                         /\ TextPart(was.body) # EmptyDoc) =>
                        now = [exists |-> TRUE, body |-> TextPart(was.body)]
                 /\ (was.exists /\ DOMAIN was.body = {ImageName}) => now = NoObject
                 /\ ~was.exists => now = NoObject
           /\ (at # "none" /\ view.next = "image" /\ ~was.exists) =>
                 (store' = store /\ images' = images)]_vars

\* The image-only delete of a profile with an image and a text field is over:
\* the store holds the text field alone.
C11_Witness ==
    /\ view.next = "image"
    /\ view.state = "Deleted"
    /\ at = "none"
    /\ view.seen.exists
    /\ ImageName \in DOMAIN view.seen.body
    /\ Stored(AnyKey) = [exists |-> TRUE, body |-> [Machine |-> "x"]]

\* C20: the view's confirmed callback changes the store only while the view is
\* in state Confirmed (so not after a cancel), and state Confirmed is entered
\* only from WaitForConfirm.
C20_StoreChangesOnlyConfirmed ==
    [][/\ (at # "none" /\ store' # store) => view.state = "Confirmed"
       /\ (view'.state = "Confirmed" /\ view.state # "Confirmed") =>
              view.state = "WaitForConfirm"]_vars

\* C12: a save_profile called with an image URL that starts with the storage
\* endpoint goes straight to the put_object, with no GET and no upload, writes
\* the document as given and stores the image field with the value given.
C12_EndpointUrlKept ==
    [][\A p \in Tasks :
        /\ (pc[p] = "idle" /\ pc'[p] \in {"save_img", "save_put"}
                /\ StartsWith(MaybeURL(given'[p]), S3_ENDPOINT)) =>
              /\ pc'[p] = "save_put"
              /\ images' = images
              /\ err'[p] = ""
              /\ body'[p] = given'[p]
        /\ (pc[p] = "save_put" /\ pc'[p] = "save_cache"
                /\ StartsWith(MaybeURL(given[p]), S3_ENDPOINT)) =>
              /\ Stored(key[p])'.exists
              /\ MaybeURL(Stored(key[p])'.body) = MaybeURL(given[p])]_vars

\* A save_profile has stored an image URL under the endpoint as given, and
\* nothing was ever uploaded.
C12_Witness ==
    /\ last.op = "save"
    /\ last.kind = "ok"
    /\ Stored(last.key).exists
    /\ MaybeURL(Stored(last.key).body) = OwnImageUrl
    /\ images = {}

\* C14: the document that a save_profile writes has the fields of the document
\* it was called with and no other: every field but the image has the value
\* given, and the image field, if there, has the URL given or the relocated one.
C14_SaveReplacesDocument ==
    [][\A p \in Tasks :
        (pc[p] = "save_put" /\ pc'[p] = "save_cache") =>
            LET new == Stored(key[p])'.body
                old == given[p]
            IN  /\ Stored(key[p])'.exists
                /\ DOMAIN new \subseteq DOMAIN old
                /\ TextPart(new) = TextPart(old)
                /\ ImageName \in DOMAIN new =>
                      new[ImageName] \in
                          {old[ImageName]} \cup
                          {UrlJoin(S3_ENDPOINT, S3_BUCKET, ImagePath(key[p], Guess(b).extension)) :
                               b \in Bodies}]_vars

\* A save_profile has just written a document without the Machine field over a
\* profile that had it.
C14_Witness ==
    \E p \in Tasks :
        /\ pc[p] = "save_cache"
        /\ before[p].has
        /\ "Machine" \in DOMAIN before[p].doc
        /\ Stored(key[p]).exists
        /\ "Machine" \notin DOMAIN Stored(key[p]).body

\* C15: an image object is uploaded, and a relocated URL is put in the document
\* to write, only when the fetched bytes are sniffed as image/*; bytes of another
\* recognised type leave the document without image field and give the warning
\* that only images can be used.
C15_OnlyImagesUploaded ==
    [][/\ images' # images =>
              \E p \in Tasks :
                  /\ pc[p] = "save_sniff"
                  /\ ~resp[p].raised
                  /\ Guess(resp[p].body).mime[1] = "image"
       /\ \A p \in Tasks :
              (pc[p] = "save_sniff" /\ pc'[p] # pc[p]) =>
                  LET kind == Guess(resp[p].body)
                  IN  /\ (pc'[p] = "save_put" /\ ImageName \in DOMAIN body'[p]) =>
                            (~resp[p].raised /\ kind.mime[1] = "image")
                      /\ (~resp[p].raised /\ kind.known /\ kind.mime[1] # "image") =>
                            /\ pc'[p] = "save_put"
                            /\ ImageName \notin DOMAIN body'[p]
                            /\ err'[p] = NotImageMsg]_vars

\* The bytes fetched were a video: save_profile is about to write the document
\* without image field, with the warning, and nothing was uploaded.
C15_Witness ==
    \E p \in Tasks :
        /\ pc[p] = "save_put"
        /\ err[p] = NotImageMsg
        /\ ImageName \notin DOMAIN body[p]
        /\ "Machine" \in DOMAIN body[p]
        /\ images = {}

\* C13: a fetch_profile raises KeyError only when the store holds no object for
\* the key, and with no object it raises KeyError unless the store itself fails.
C13_KeyErrorOnlyWhenMissing ==
    last.op = "fetch" =>
        /\ last.kind = "KeyError" => ~Stored(last.key).exists
        /\ ~Stored(last.key).exists => last.kind \in {"KeyError", "StorageFailure"}

\* C18: with calls that never overlap, delete_profile never raises for a missing
\* entry or object (only a failure of the store makes it raise); on a key with
\* no cache entry and no stored object it changes neither cache nor store, and
\* after a delete that returned neither the cache nor the store holds the key, so
\* a second delete finds that state and leaves it as it is.
C18_DeleteIdempotent ==
    [][\A p \in Tasks, k \in Keys :
          /\ (pc[p] = "idle" /\ pc'[p] = "del_obj" /\ key'[p] = k) =>
                 /\ store' = store
                 /\ images' = images
                 /\ ~Cached(k)'.has
                 /\ ~Cached(k).has => cache' = cache
          /\ (pc[p] = "del_obj" /\ pc'[p] = "idle" /\ key[p] = k) =>
                 /\ last'.op = "delete"
                 /\ last'.kind \in {"ok", "StorageFailure"}
                 /\ cache' = cache
                 /\ images' = images
                 /\ last'.kind = "StorageFailure" => store' = store
                 /\ last'.kind = "ok" =>
                        /\ ~Stored(k)'.exists
                        /\ ~Cached(k)'.has
                        /\ ~Stored(k).exists => store' = store]_vars

\* A delete_profile is running on a key that an earlier delete_profile removed:
\* nothing is stored and nothing is cached for it.
C18_Witness ==
    /\ pc[Reader] = "del_obj"
    /\ key[Reader] \in deleted
    /\ ~Stored(key[Reader]).exists
    /\ ~Cached(key[Reader]).has

\* The keys in the cache, and the cached key whose last access (a lookup that
\* found it, or an insert) is the oldest in the log of accesses.
CachedKeys(c) == {c[i].key : i \in 1..Len(c)}
Pos(u, hk) == CHOOSE i \in 1..Len(u) : u[i] = hk
LeastRecent(c, u) ==
    CHOOSE hk \in CachedKeys(c) : \A o \in CachedKeys(c) : Pos(u, hk) <= Pos(u, o)

\* C19: the profile cache never holds more entries than its capacity; an insert
\* of a key that is not cached, at capacity, drops exactly the cached key whose
\* last access (lookup by fetch_profile, insert by save_profile or fetch_profile)
\* is the oldest, below capacity it drops nothing, and a step that inserts no new
\* key and is not delete_profile's del drops nothing.
C19_LruEviction ==
    /\ [](Len(cache) <= CacheMaxSize)
    /\ [][/\ \A k \in Keys :
                LET hk == HashKey(k)
                IN  (CacheHas(cache', hk) /\ ~CacheHas(cache, hk)) =>
                        IF Len(cache) = CacheMaxSize
                        THEN CachedKeys(cache') =
                                 (CachedKeys(cache) \ {LeastRecent(cache, used)}) \cup {hk}
                        ELSE CachedKeys(cache') = CachedKeys(cache) \cup {hk}
          /\ (CachedKeys(cache') \subseteq CachedKeys(cache) /\ pc'[Reader] # "del_obj") =>
                CachedKeys(cache') = CachedKeys(cache)]_vars

\* A save_profile of a member not in the full cache has returned after a lookup
\* had found another member's profile: the cache is still full, and the key
\* whose last access was the oldest is the one that is gone.
C19_Witness ==
    /\ last.op = "save"
    /\ last.kind = "ok"
    /\ hits = 2
    /\ misses = 1
    /\ Len(used) = CacheMaxSize + 1
    /\ Len(cache) = CacheMaxSize
    /\ ~CacheHas(cache, used[1])
    /\ CacheHas(cache, HashKey(last.key))

\* C16: fetch_profile, delete_profile, save_profile and the web viewer derive for
\* a (template, guild, user) the same key profiles/{guild}/{template name}/{user}.json,
\* and the keys of two different triples differ.
C16_SameKeyEverywhere ==
    probe.op = "paths" =>
        LET a == probe.a
            expected == "profiles/" \o a.guild \o "/" \o a.template \o "/"
                            \o ToString(a.user) \o ".json"
        IN  /\ probe.fetch = expected
            /\ probe.delete = expected
            /\ probe.save = expected
            /\ probe.web = expected
            /\ probe.a # probe.b => probe.save # probe.other

\* The keys of one member's two profiles in one guild were derived: they differ
\* in the template name only, which has a space.
C16_Witness ==
    /\ probe.op = "paths"
    /\ probe.a.template # probe.b.template
    /\ probe.a.guild = probe.b.guild
    /\ probe.a.user = probe.b.user
    /\ Contains(probe.save, "/Coffee Setup/")
    /\ Contains(probe.other, "/Roasting Setup/")

\* C17: the URL save_profile returns has no raw space (the template name is
\* percent-encoded); the web route matches it and yields the guild id, template
\* name and user id that were saved, and the viewer reads the key save_profile
\* wrote, in the bucket of the deployment.
C17_ViewerUrlRoundTrip ==
    probe.op = "shown" =>
        /\ ~HasChar(probe.url, " ")
        /\ probe.route.matched
        /\ probe.route.guild_id = probe.a.guild
        /\ probe.route.template_name = probe.a.template
        /\ probe.route.user_id = ToString(probe.a.user)
        /\ probe.route.bucket = S3_BUCKET
        /\ probe.read = [bucket |-> S3_BUCKET, key |-> probe.save]

\* The viewer was asked for a URL with an encoded space and read the key of the
\* "Coffee Setup" profile.
C17_Witness ==
    /\ probe.op = "shown"
    /\ Contains(probe.url, "/Coffee%20Setup/")
    /\ probe.route.template_name = "Coffee Setup"
    /\ probe.read.key = probe.save

\* C21: when the save_profile or delete_profile of the confirmed step of a delete
\* flow fails, the callback ends with the view in state Error and stopped.
C21_FailureEndsInError ==
    [][(at # "none" /\ at' = "none" /\ last.op \in {"save", "delete"} /\ last.kind # "ok") =>
           (view'.state = "Error" /\ view'.stopped # "no")]_vars

\* C22: constructing a storage client (the bot's S3Backend, the viewer's
\* S3Client) raises exactly when one of the four settings is missing or empty,
\* and no call runs on a client whose settings are not all set.
C22_ConfigurationRequired ==
    /\ probe.op \in {"S3Backend", "S3Client"} => (probe.raised # "" <=> ~Complete(probe.env))
    /\ probe.op \in {"S3Backend call", "S3Client call"} => Complete(probe.env)

\* The names of a sequence of named things are pairwise distinct.
DistinctNames(seq) == \A i, j \in 1..Len(seq) : i # j => seq[i].Name # seq[j].Name

C24_AtMostFiveFields ==
    /\ probe.op \in {"templates", "form"} =>
          \A guild \in DOMAIN probe.result :
              \A i \in 1..Len(probe.result[guild]) :
                  Len(probe.result[guild][i].Fields) <= MaxFields
    /\ probe.op = "form" => Len(probe.items) <= MaxFields

\* The edit form of the five-field template is open with all its inputs.
C24_Witness ==
    /\ probe.op = "form"
    /\ probe.template.Name = "Coffee Setup"
    /\ Len(probe.items) = MaxFields
    /\ probe.items[1].default = Some("x")

\* C25: all_templates() returns a mapping in every environment: the empty one
\* when SPROBOT_ENV is unset or not a known environment, and for dev and prod
\* the templates of that environment's guild alone.
C25_RegistryLookupTotal ==
    probe.op = "templates" =>
        LET env == Get(probe.environ, "SPROBOT_ENV")
        IN  /\ env \notin {Some("dev"), Some("prod")} => DOMAIN probe.result = {}
            /\ env = Some("dev") => DOMAIN probe.result = {"1013566342345019512"}
            /\ env = Some("prod") => DOMAIN probe.result = {"726985544038612993"}
            /\ \A guild \in DOMAIN probe.result :
                  {probe.result[guild][i].Name : i \in 1..Len(probe.result[guild])}
                      = TemplateNames

\* The lookup ran with SPROBOT_ENV unset and gave the empty mapping.
C25_Witness ==
    /\ probe.op = "templates"
    /\ probe.environ = [names \in {} |-> ""]
    /\ probe.result = NoTemplates

\* C26: saving again a document whose image field holds the URL that an earlier
\* relocation built fetches nothing and keeps that URL in the document.
C26_RelocatedUrlIsOwned ==
    probe.op = "resave" => (~probe.fetch /\ probe.image_url = Some(probe.url))

\* C27: no step of the backend removes an image object of the bucket or changes
\* its bytes.
C27_ImagesNeverAltered ==
    [][\A o \in images : o \in images']_vars

\* C28: when _get_image_s3_url returns for a URL it had to fetch, save_profile
\* goes on either with an image URL in the document and no warning, or with a
\* warning and no image field; the warning is the fetch-failure one exactly when
\* the GET raised, the unknown-type one exactly when the bytes were not
\* recognised, and the not-an-image one exactly when they were recognised as
\* something else than an image.
C28_UrlOrWarning ==
    [][\A p \in Tasks :
          (pc[p] = "save_sniff" /\ pc'[p] = "save_put") =>
              LET kind == Guess(resp[p].body)
                  hasUrl == /\ ImageName \in DOMAIN body'[p]
                            /\ body'[p][ImageName] # EmptyUrl
              IN  /\ hasUrl <=> err'[p] = ""
                  /\ ~hasUrl => ImageName \notin DOMAIN body'[p]
                  /\ err'[p] = FetchErrorMsg <=> resp[p].raised
                  /\ err'[p] = UnknownTypeMsg <=> (~resp[p].raised /\ ~kind.known)
                  /\ err'[p] = NotImageMsg <=>
                        (~resp[p].raised /\ kind.known /\ kind.mime[1] # "image")
                  /\ err'[p] \in {"", FetchErrorMsg, UnknownTypeMsg, NotImageMsg}]_vars

\* The source URL answered with a page: save_profile goes on with the
\* unknown-type warning and a document without image field.
C28_Witness ==
    \E p \in Tasks :
        /\ pc[p] = "save_put"
        /\ err[p] = UnknownTypeMsg
        /\ ImageName \notin DOMAIN body[p]
        /\ given[p] # EmptyDoc
        /\ MaybeURL(given[p]) = ProxyUrl

\* C29: the cache counters never decrease; a lookup raises the total by one and
\* the miss counter by one when fetch_profile does not return a document from
\* the cache, by nothing when it does; the miss counter never exceeds the total
\* and their sum is never zero.
C29_CountersFollowLookups ==
    [][/\ hits' >= hits
       /\ misses' >= misses
       /\ misses' <= hits'
       /\ hits' + misses' # 0
       /\ misses' # misses => hits' # hits
       /\ hits' # hits =>
             /\ hits' = hits + 1
             /\ misses' = IF last'.op = "fetch" /\ last'.kind = "ok"
                          THEN misses ELSE misses + 1]_vars

\* C30: the store never comes to hold an empty profile document: a save_profile
\* that was given a document with an image URL to fetch (be it the only field,
\* and the image then rejected) writes a document with at least one field.
C30_NoEmptyDocumentStored ==
    [][\A p \in Tasks :
          (pc[p] = "save_put" /\ pc'[p] = "save_cache" /\ NeedsFetch(given[p])) =>
              (Stored(key[p])'.exists /\ Stored(key[p])'.body # EmptyDoc)]_vars

\* C31: in every stored document the image field, when present, is the URL of an
\* image object of the same key that is in the bucket and whose bytes were
\* sniffed as an image.
C31_ImageFieldIsVerifiedObject ==
    \A k \in Keys :
        (Stored(k).exists /\ IsDict(Stored(k).body) /\ ImageName \in DOMAIN Stored(k).body) =>
            \E o \in images :
                /\ Stored(k).body[ImageName] = UrlJoin(S3_ENDPOINT, S3_BUCKET, o.path)
                /\ o.path = ImagePath(k, Guess(o.body).extension)
                /\ IsImageMime(Guess(o.body))

\* The image objects of a key.
ImagesOf(k) ==
    {o \in images : o.path[2] = k.guild /\ o.path[3] = k.template
                       /\ o.path[4] = ToString(k.user)}

\* C32: a step of a call on one key leaves the stored document and the image
\* objects of every other key as they are, and leaves another key's cache entry
\* as it is or, when the cache is full, drops it; in every interleaving of calls
\* on different keys.
C32_OtherKeysUntouched ==
    [][\A p \in Tasks, own \in Keys :
          (key'[p] = own /\ (pc'[p] # pc[p] \/ (last'.op # "none" /\ last'.task = p))) =>
              \A k \in Keys \ {own} :
                  /\ Stored(k)' = Stored(k)
                  /\ ImagesOf(k)' = ImagesOf(k)
                  /\ \/ Cached(k)' = Cached(k)
                     \/ /\ Cached(k).has
                        /\ ~Cached(k)'.has
                        /\ Len(cache) = CacheMaxSize
                        /\ Cached(own)'.has
                        /\ ~Cached(own).has]_vars

\* A save_profile of one member has returned while a call for another member is
\* suspended, and a third member's profile is still stored though the save
\* pushed it out of the full cache.
C32_Witness ==
    /\ last.op = "save"
    /\ last.kind = "ok"
    /\ \E q \in Tasks \ {last.task} : pc[q] # "idle" /\ key[q] # last.key
    /\ \E k \in Keys \ {last.key} :
          /\ Stored(k).exists
          /\ ~Cached(k).has
          /\ k \notin deleted
    /\ Len(cache) = CacheMaxSize

\* C33: the states Cancelled, Deleted and Error of a delete flow are absorbing:
\* once the view is in one of them its state no longer changes and its callback
\* no longer writes to or deletes from the store.
C33_TerminalStatesAbsorbing ==
    [][view.state \in {"Cancelled", "Deleted", "Error"} =>
           /\ view'.state = view.state
           /\ at # "none" => store' = store]_vars

RECURSIVE Joined(_)
Joined(fields) == IF fields = <<>> THEN "" ELSE Head(fields) \o Joined(Tail(fields))

\* C35: the content of an archived message is split into fields of at least 1
\* and at most EMBED_SPLIT_SIZE characters each, which joined in order are the
\* content, whatever the length of the content.
C35_FieldsTileContent ==
    probe.op = "embed" =>
        /\ \A i \in 1..Len(probe.fields) :
               Len(probe.fields[i]) \in 1..EMBED_SPLIT_SIZE
        /\ Joined(probe.fields) = probe.content

=============================================================================
